---- MODULE Spec2Model ----
(***************************************************************************)
(* Model of passwd-gen (src/src/main.rs): the lazy multiway Cartesian      *)
(* product MultiCartesianProduct, the recursive enumerator iterate_all,    *)
(* the boundedness predicate is_unbounded and the driver main.             *)
(*                                                                         *)
(* Every Rust iterator is a record tagged by k; one pull of an iterator is *)
(* ItNext, which returns the iterator after the pull together with the     *)
(* outcome: "some" (a value v), "none" (exhausted), "spin" (the pull never *)
(* returns) or "panic" (Option::unwrap on None).                           *)
(***************************************************************************)
EXTENDS Integers, Sequences, FiniteSets, TLC

VARIABLES
    test_factories,  \* the factories handed to MultiCartesianProduct::new by a test
    hir,          \* the syntax tree (regex_syntax::hir::Hir), read-only
    max_length,   \* Option<usize>: Args::max_length / iterate_all's argument
    min_length,   \* usize: Args::min_length
    num,          \* Option<usize>: Args::num
    it,           \* the live iterator being pulled
    patterns,     \* what the consumer has received so far, in order
    i,            \* enumerate()'s counter in main: the index the next item gets
    pc            \* position of the consumer

vars == <<test_factories, hir, max_length, min_length, num, it, patterns, i, pc>>

----------------------------------------------------------------------------
(* Bounds of the model *)

\* largest max_length explored
MaxLen == 2
\* pulls after which the consumer of a still unexhausted sequence stops
MaxPulls == 11
\* iterations of one internal loop (filter, flat_map) during a single pull
\* after which the pull is taken never to return; above the longest run of
\* discarded items any explored tree produces before it yields or ends
MaxSpin == 12
\* largest result-count cap explored
MaxNum == 2
\* largest repeat count written in a Repetition of the explored trees
MaxRepeat == 2
\* most dimensions and longest dimension of a product built directly
MaxDims == 3
MaxSize == 3
\* candidates collected from a sub-pattern when its whole sequence is needed
MaxCollect == 16

----------------------------------------------------------------------------
(* Option<usize>::None *)
NoneVal == -1

(* bytes of the patterns *)
ByteA == 97
ByteB == 98
ByteHigh == 255
CharEAcute == 233

Min2(a, b) == IF a < b THEN a ELSE b

RECURSIVE ConcatAll(_)
(* slice::join with an empty separator / into_iter().flatten().collect() *)
ConcatAll(ss) == IF ss = <<>> THEN <<>> ELSE Head(ss) \o ConcatAll(Tail(ss))

----------------------------------------------------------------------------
(* Syntax tree: HirKind, every node with the same fields *)

Node(kind, bytes, ranges, min, max, subs) ==
    [kind |-> kind, bytes |-> bytes, ranges |-> ranges,
     min |-> min, max |-> max, subs |-> subs]

Empty == Node("Empty", <<>>, <<>>, 0, NoneVal, <<>>)
Look == Node("Look", <<>>, <<>>, 0, NoneVal, <<>>)
Literal(bytes) == Node("Literal", bytes, <<>>, 0, NoneVal, <<>>)
ClassBytes(ranges) == Node("ClassBytes", <<>>, ranges, 0, NoneVal, <<>>)
ClassUnicode(ranges) == Node("ClassUnicode", <<>>, ranges, 0, NoneVal, <<>>)
Repetition(sub, min, max) == Node("Repetition", <<>>, <<>>, min, max, <<sub>>)
Capture(sub) == Node("Capture", <<>>, <<>>, 0, NoneVal, <<sub>>)
Concat(hirs) == Node("Concat", <<>>, <<>>, 0, NoneVal, hirs)
Alternation(hirs) == Node("Alternation", <<>>, <<>>, 0, NoneVal, hirs)

----------------------------------------------------------------------------
(* char::encode_utf8 *)
EncodeUtf8(c) ==
    IF c < 128 THEN <<c>>
    ELSE IF c < 2048 THEN <<192 + (c \div 64), 128 + (c % 64)>>
    ELSE IF c < 65536
         THEN <<224 + (c \div 4096), 128 + ((c \div 64) % 64), 128 + (c % 64)>>
         ELSE <<240 + (c \div 262144), 128 + ((c \div 4096) % 64),
                128 + ((c \div 64) % 64), 128 + (c % 64)>>

RECURSIVE RangeItems(_, _, _)
(* r.start()..=r.end() of a class range, each value mapped to a candidate;
   a RangeInclusive<char> steps over the surrogate gap *)
RangeItems(lo, hi, unicode) ==
    IF lo > hi THEN <<>>
    ELSE IF unicode /\ lo >= 55296 /\ lo <= 57343
         THEN RangeItems(57344, hi, unicode)
         ELSE <<IF unicode THEN EncodeUtf8(lo) ELSE <<lo>>>>
              \o RangeItems(lo + 1, hi, unicode)

RECURSIVE ClassItems(_, _)
(* class.iter().map(range).flatten().map(encode) *)
ClassItems(ranges, unicode) ==
    IF ranges = <<>> THEN <<>>
    ELSE RangeItems(Head(ranges)[1], Head(ranges)[2], unicode)
         \o ClassItems(Tail(ranges), unicode)

----------------------------------------------------------------------------
(* Iterators *)

NoIt == [k |-> "noit"]
HangIt == [k |-> "hang"]      \* the call that builds the iterator never returns
PanicIt == [k |-> "panic"]    \* the call that builds the iterator panicked
EmptyIt == [k |-> "empty"]
OnceIt(v) == [k |-> "once", v |-> v, taken |-> FALSE]
ListIt(items) == [k |-> "list", items |-> items, pos |-> 1]
\* Map over an iterator; f names the closure
MapIt(f, inner) == [k |-> "map", f |-> f, inner |-> inner]
\* Filter: p = "le" keeps len <= n, p = "ge" keeps len >= n
FilterIt(p, n, inner) == [k |-> "filter", p |-> p, n |-> n, inner |-> inner]
TakeWhileIt(n, inner) == [k |-> "takewhile", n |-> n, flag |-> FALSE, inner |-> inner]
\* FlatMap / Flatten: src = "rep" walks repeat counts cur..hi of node.subs[1]
\* (hi = NoneVal: RangeFrom), src = "alt" walks the branches node.subs[cur..hi]
FlatIt(src, node, ml, cur, hi) ==
    [k |-> "flat", src |-> src, node |-> node, ml |-> ml,
     cur |-> cur, hi |-> hi, front |-> NoIt]

\* a factory of MultiCartesianProduct: the closure over (hir, max_length) that
\* iterate_all builds, or an array literal's into_iter (test_cartesian)
HirFactory(node, ml) == [fk |-> "hir", node |-> node, ml |-> ml, items |-> <<>>]
ListFactory(items) == [fk |-> "list", node |-> Empty, ml |-> NoneVal, items |-> items]

IsBroken(x) == x.k \in {"hang", "panic"}

Out(itr, r, v) == [it |-> itr, r |-> r, v |-> v]

RECURSIVE iterate_all(_, _)
RECURSIVE ItNext(_)
RECURSIVE McpHeads(_, _, _, _)
RECURSIVE McpAdvance(_, _, _)
RECURSIVE FilterLoop(_, _)
RECURSIVE FlatLoop(_, _)

(* (factory)() *)
Instantiate(f) ==
    IF f.fk = "hir" THEN iterate_all(f.node, f.ml) ELSE ListIt(f.items)

(* McpHeadsOn that goes on to the next dimension when dimension k is empty,
   instead of setting done and leaving the loop *)
McpHeadsOnSkipsEmpty(factories, iters, heads, k, s) ==
    CASE s.r = "some" ->
           McpHeads(factories, [iters EXCEPT ![k] = s.it], Append(heads, s.v), k + 1)
      [] s.r = "none" ->
           McpHeads(factories, [iters EXCEPT ![k] = s.it], heads, k + 1)
      [] s.r = "spin" -> HangIt
      [] OTHER -> PanicIt

(* MultiCartesianProduct::new, line 34: s is the outcome of iter.next() on
   dimension k *)
McpHeadsOn(factories, iters, heads, k, s) ==
    CASE s.r = "some" ->
           McpHeads(factories, [iters EXCEPT ![k] = s.it], Append(heads, s.v), k + 1)
      [] s.r = "none" ->
           [k |-> "mcp", factories |-> factories,
            iters |-> [iters EXCEPT ![k] = s.it], heads |-> heads, done |-> TRUE]
      [] s.r = "spin" -> HangIt
      [] OTHER -> PanicIt

(* MultiCartesianProduct::new, the loop over iters that draws the heads *)
McpHeads(factories, iters, heads, k) ==
    IF k > Len(iters)
    THEN [k |-> "mcp", factories |-> factories, iters |-> iters,
          heads |-> heads, done |-> FALSE]
    ELSE McpHeadsOn(factories, iters, heads, k, ItNext(iters[k]))

(* MultiCartesianProduct::new once the factories have been called *)
McpNewOn(factories, iters) ==
    IF \E j \in 1..Len(iters) : iters[j].k = "hang" THEN HangIt
    ELSE IF \E j \in 1..Len(iters) : iters[j].k = "panic" THEN PanicIt
    ELSE McpHeads(factories, iters, <<>>, 1)

(* MultiCartesianProduct::new *)
McpNew(factories) ==
    McpNewOn(factories, [j \in 1..Len(factories) |-> Instantiate(factories[j])])

(* McpOnHead with the carry lost: the dimension that wrapped is regenerated
   and the advance stops there instead of moving on to dimension k + 1 *)
McpOnHeadNoCarry(st, k, result, s2) ==
    IF s2.r = "some"
    THEN Out([st EXCEPT !.iters[k] = s2.it, !.heads[k] = s2.v], "some", result)
    ELSE Out(st, s2.r, <<>>)

(* MultiCartesianProduct::next, line 78: s2 is the outcome of iter.next() on
   the regenerated dimension k *)
McpOnHead(st, k, result, s2) ==
    CASE s2.r = "some" ->
           McpAdvance([st EXCEPT !.iters[k] = s2.it, !.heads[k] = s2.v], k + 1, result)
      [] s2.r = "none" -> Out([st EXCEPT !.iters[k] = s2.it], "panic", <<>>)
      [] OTHER -> Out(st, s2.r, <<>>)

(* McpOnFresh that does not put the fresh iterator in place: the head is drawn
   from the exhausted iterator of dimension k *)
McpOnFreshKeepsSpent(st, k, result, fresh) ==
    IF IsBroken(fresh)
    THEN Out(st, IF fresh.k = "hang" THEN "spin" ELSE "panic", <<>>)
    ELSE McpOnHead(st, k, result, ItNext(st.iters[k]))

(* MultiCartesianProduct::next, line 77: fresh is (factory)() *)
McpOnFresh(st, k, result, fresh) ==
    IF IsBroken(fresh)
    THEN Out(st, IF fresh.k = "hang" THEN "spin" ELSE "panic", <<>>)
    ELSE McpOnHead(st, k, result, ItNext(fresh))

(* McpOnNext that advances the iterator of dimension k but leaves its head
   as it was *)
McpOnNextStaleHead(st, k, result, s) ==
    CASE s.r = "some" -> Out([st EXCEPT !.iters[k] = s.it], "some", result)
      [] s.r = "none" -> McpOnFresh(st, k, result, Instantiate(st.factories[k]))
      [] OTHER -> Out(st, s.r, <<>>)

(* MultiCartesianProduct::next, line 73: s is the outcome of iter.next() on
   dimension k *)
McpOnNext(st, k, result, s) ==
    CASE s.r = "some" ->
           Out([st EXCEPT !.iters[k] = s.it, !.heads[k] = s.v], "some", result)
      [] s.r = "none" -> McpOnFresh(st, k, result, Instantiate(st.factories[k]))
      [] OTHER -> Out(st, s.r, <<>>)

(* MultiCartesianProduct::next, the loop over the zipped dimensions from k on;
   result is the clone of heads taken before the loop *)
McpAdvance(st, k, result) ==
    IF k > Min2(Min2(Len(st.heads), Len(st.iters)), Len(st.factories))
    THEN Out([st EXCEPT !.done = TRUE], "some", result)
    ELSE McpOnNext(st, k, result, ItNext(st.iters[k]))

(* McpNext with a product of no factories taken for an exhausted one *)
McpNextNoFactoriesIsDone(st) ==
    IF st.done \/ st.factories = <<>> THEN Out([st EXCEPT !.done = TRUE], "none", <<>>)
    ELSE McpAdvance(st, 1, st.heads)

(* MultiCartesianProduct::next *)
McpNext(st) ==
    IF st.done THEN Out(st, "none", <<>>)
    ELSE IF st.factories = <<>> THEN Out([st EXCEPT !.done = TRUE], "some", <<>>)
    ELSE McpAdvance(st, 1, st.heads)

(* String::from_utf8_lossy(..).into_owned(), as the bytes of the String *)
RECURSIVE Lossy(_)
Replacement == <<239, 191, 189>>
IsCont(b) == b >= 128 /\ b <= 191
Lossy(bs) ==
    IF bs = <<>> THEN <<>>
    ELSE LET b == bs[1]
             n == Len(bs)
             rest(j) == SubSeq(bs, j + 1, n)
         IN CASE b < 128 -> <<b>> \o Lossy(rest(1))
              [] b >= 194 /\ b <= 223 ->
                   IF n >= 2 /\ IsCont(bs[2])
                   THEN SubSeq(bs, 1, 2) \o Lossy(rest(2))
                   ELSE Replacement \o Lossy(rest(1))
              [] b >= 224 /\ b <= 239 ->
                   LET ok2 == n >= 2 /\ bs[2] <= 191
                              /\ bs[2] >= (IF b = 224 THEN 160 ELSE 128)
                              /\ (b = 237 => bs[2] <= 159)
                   IN IF ~ok2 THEN Replacement \o Lossy(rest(1))
                      ELSE IF n >= 3 /\ IsCont(bs[3])
                           THEN SubSeq(bs, 1, 3) \o Lossy(rest(3))
                           ELSE Replacement \o Lossy(rest(2))
              [] b >= 240 /\ b <= 244 ->
                   LET ok2 == n >= 2 /\ bs[2] >= (IF b = 240 THEN 144 ELSE 128)
                              /\ bs[2] <= (IF b = 244 THEN 143 ELSE 191)
                   IN IF ~ok2 THEN Replacement \o Lossy(rest(1))
                      ELSE IF ~(n >= 3 /\ IsCont(bs[3]))
                           THEN Replacement \o Lossy(rest(2))
                           ELSE IF n >= 4 /\ IsCont(bs[4])
                                THEN SubSeq(bs, 1, 4) \o Lossy(rest(4))
                                ELSE Replacement \o Lossy(rest(3))
              [] OTHER -> Replacement \o Lossy(rest(1))

(* the closures given to map *)
ApplyMap(f, v) ==
    CASE f = "join" -> ConcatAll(v)       \* |x| x.join(&[][..])
      [] f = "flatten" -> ConcatAll(v)    \* |x| x.into_iter().flatten().collect()
      [] f = "lossy" -> Lossy(v)          \* |v| String::from_utf8_lossy(&v).into_owned()
      [] OTHER -> v

(* the closures given to filter and take_while *)
Keeps(p, n, v) == IF p = "ge" THEN Len(v) >= n ELSE Len(v) <= n

(* Filter::next, s the outcome of the inner next() *)
FilterOn(f, fuel, s) ==
    IF s.r # "some" THEN Out([f EXCEPT !.inner = s.it], s.r, <<>>)
    ELSE IF Keeps(f.p, f.n, s.v) THEN Out([f EXCEPT !.inner = s.it], "some", s.v)
    ELSE FilterLoop([f EXCEPT !.inner = s.it], fuel - 1)

(* Filter::next: pull the inner iterator until an item passes *)
FilterLoop(f, fuel) ==
    IF fuel = 0 THEN Out(f, "spin", <<>>)
    ELSE FilterOn(f, fuel, ItNext(f.inner))

(* .map(f) put on a product that was built *)
WrapMap(f, m) == IF IsBroken(m) THEN m ELSE MapIt(f, m)

(* FlatBlock with the product of a Repetition one dimension too wide *)
FlatBlockOneMore(f) ==
    IF f.src = "rep"
    THEN WrapMap("join", McpNew([j \in 1..(f.cur + 1) |-> HirFactory(f.node.subs[1], f.ml)]))
    ELSE iterate_all(f.node.subs[f.cur], f.ml)

(* the item of the outer iterator of a FlatMap / Flatten, made into an iterator:
   mapper(repeats) for a Repetition, iterate_all(h, max_length) for a branch *)
FlatBlock(f) ==
    IF f.src = "rep"
    THEN WrapMap("join", McpNew([j \in 1..f.cur |-> HirFactory(f.node.subs[1], f.ml)]))
    ELSE iterate_all(f.node.subs[f.cur], f.ml)

(* FlatOnFront that ends the whole sequence when the current inner iterator
   ends, instead of moving on to the next outer item *)
FlatOnFrontStop(f, fuel, s) ==
    Out([f EXCEPT !.front = s.it], s.r, IF s.r = "some" THEN s.v ELSE <<>>)

(* FlatMap::next, s the outcome of next() on the current inner iterator *)
FlatOnFront(f, fuel, s) ==
    CASE s.r = "some" -> Out([f EXCEPT !.front = s.it], "some", s.v)
      [] s.r = "none" -> FlatLoop([f EXCEPT !.front = NoIt], fuel)
      [] OTHER -> Out([f EXCEPT !.front = s.it], s.r, <<>>)

(* FlatMap::next, b the inner iterator made from the next outer item *)
FlatOnBlock(f, fuel, b) ==
    IF IsBroken(b)
    THEN Out(f, IF b.k = "hang" THEN "spin" ELSE "panic", <<>>)
    ELSE FlatLoop([f EXCEPT !.front = b, !.cur = f.cur + 1], fuel - 1)

(* FlatMap::next / Flatten::next *)
FlatLoop(f, fuel) ==
    IF fuel = 0 THEN Out(f, "spin", <<>>)
    ELSE IF f.front.k # "noit" THEN FlatOnFront(f, fuel, ItNext(f.front))
    ELSE IF f.hi # NoneVal /\ f.cur > f.hi THEN Out(f, "none", <<>>)
    ELSE FlatOnBlock(f, fuel, FlatBlock(f))

(* TakeWhile::next, s the outcome of the inner next() *)
TakeWhileOn(t, s) ==
    IF s.r # "some" THEN Out([t EXCEPT !.inner = s.it], s.r, <<>>)
    ELSE IF Keeps("le", t.n, s.v) THEN Out([t EXCEPT !.inner = s.it], "some", s.v)
    ELSE Out([t EXCEPT !.inner = s.it, !.flag = TRUE], "none", <<>>)

(* TakeWhile::next *)
TakeWhileNext(t) ==
    IF t.flag THEN Out(t, "none", <<>>) ELSE TakeWhileOn(t, ItNext(t.inner))

(* Map::next, s the outcome of the inner next() *)
MapOn(x, s) ==
    Out([x EXCEPT !.inner = s.it], s.r,
        IF s.r = "some" THEN ApplyMap(x.f, s.v) ELSE <<>>)

(* the iterators that hold no inner iterator *)
LeafNext(x) ==
    CASE x.k = "empty" -> Out(x, "none", <<>>)
      [] x.k = "once" ->
           IF x.taken THEN Out(x, "none", <<>>)
           ELSE Out([x EXCEPT !.taken = TRUE], "some", x.v)
      [] x.k = "list" ->
           IF x.pos > Len(x.items) THEN Out(x, "none", <<>>)
           ELSE Out([x EXCEPT !.pos = x.pos + 1], "some", x.items[x.pos])
      [] x.k = "hang" -> Out(x, "spin", <<>>)
      [] OTHER -> Out(x, "panic", <<>>)

(* Iterator::next of every iterator the program builds *)
ItNext(x) ==
    CASE x.k = "map" -> MapOn(x, ItNext(x.inner))
      [] x.k = "filter" -> FilterLoop(x, MaxSpin)
      [] x.k = "takewhile" -> TakeWhileNext(x)
      [] x.k = "flat" -> FlatLoop(x, MaxSpin)
      [] x.k = "mcp" -> McpNext(x)
      [] OTHER -> LeafNext(x)

(* iterate_all, the match on hir.kind() *)
IterateKind(h, ml) ==
    CASE h.kind \in {"Empty", "Look"} -> EmptyIt
      [] h.kind = "Literal" -> OnceIt(h.bytes)
      [] h.kind = "ClassUnicode" -> ListIt(ClassItems(h.ranges, TRUE))
      [] h.kind = "ClassBytes" -> ListIt(ClassItems(h.ranges, FALSE))
      [] h.kind = "Repetition" ->
           IF ml # NoneVal
           THEN TakeWhileIt(ml, FlatIt("rep", h, ml, h.min, h.max))
           ELSE FlatIt("rep", h, ml, h.min, h.max)
      [] h.kind = "Capture" -> iterate_all(h.subs[1], ml)
      [] h.kind = "Concat" ->
           WrapMap("flatten", McpNew([j \in 1..Len(h.subs) |-> HirFactory(h.subs[j], ml)]))
      [] OTHER -> FlatIt("alt", h, ml, 1, Len(h.subs))

(* WrapFilter without the filter *)
WrapFilterNone(ml, result) == result

(* iterate_all, lines 168-172: the final filter *)
WrapFilter(ml, result) ==
    IF IsBroken(result) THEN result
    ELSE IF ml # NoneVal THEN FilterIt("le", ml, result)
    ELSE result

(* iterate_all *)
iterate_all(h, ml) == WrapFilter(ml, IterateKind(h, ml))

RECURSIVE is_unbounded(_)
(* is_unbounded *)
is_unbounded(h) ==
    CASE h.kind = "Repetition" -> h.max = NoneVal
      [] h.kind = "Capture" -> is_unbounded(h.subs[1])
      [] h.kind \in {"Concat", "Alternation"} ->
           \E j \in 1..Len(h.subs) : is_unbounded(h.subs[j])
      [] OTHER -> FALSE

----------------------------------------------------------------------------
(* Iterator::collect, stopped after fuel items: r tells how the pulling
   ended ("none": exhausted, "cap": fuel items were received) *)
RECURSIVE CollectLoop(_, _, _)
CollectOn(acc, fuel, s) ==
    IF s.r = "some" THEN CollectLoop(s.it, Append(acc, s.v), fuel - 1)
    ELSE [out |-> acc, r |-> s.r]

CollectLoop(x, acc, fuel) ==
    IF fuel = 0 THEN [out |-> acc, r |-> "cap"]
    ELSE CollectOn(acc, fuel, ItNext(x))

CollectFrom(e, fuel) ==
    IF IsBroken(e)
    THEN [out |-> <<>>, r |-> IF e.k = "hang" THEN "spin" ELSE "panic"]
    ELSE CollectLoop(e, <<>>, fuel)

(* iterate_all(h, ml).collect() *)
Collected(h, ml, fuel) == CollectFrom(iterate_all(h, ml), fuel)

----------------------------------------------------------------------------
(* The syntax trees explored *)

LitA == Literal(<<ByteA>>)
LitB == Literal(<<ByteB>>)
LitBB == Literal(<<ByteB, ByteB>>)
ClassAB == ClassBytes(<<<<ByteA, ByteB>>>>)
ClassNone == ClassBytes(<<>>)
ClassHigh == ClassBytes(<<<<ByteHigh - 1, ByteHigh>>>>)
ClassE == ClassUnicode(<<<<CharEAcute, CharEAcute + 1>>>>)
StarA == Repetition(LitA, 0, NoneVal)
StarB == Repetition(LitB, 0, NoneVal)
OptA == Repetition(LitA, 0, 1)

\* The parser's constructors simplify as they build: a Repetition {0,0} or
\* {1,1} is never kept, nor an unbounded Repetition of a node that matches only
\* the empty string; a Concat holds no Empty and no two adjacent Literals; an
\* Alternation whose branches are all single characters becomes a class. The
\* trees below are of the shapes that remain.

Atoms == {Empty, Look, LitA, LitB, LitBB, ClassAB, ClassNone, ClassHigh, ClassE}

CharLike == {LitA, LitB, ClassAB, ClassNone, ClassHigh, ClassE}

RepBounds ==
    {b \in (0..MaxRepeat) \X ({NoneVal} \cup (0..MaxRepeat)) :
        /\ b[2] = NoneVal \/ b[2] >= b[1]
        /\ b \notin {<<0, 0>>, <<1, 1>>}}

Subs ==
    (Atoms \ {Empty, Look})
    \cup {Alternation(<<LitA, LitBB>>), Alternation(<<LitBB, LitA>>),
          Capture(LitA), OptA, StarA, Concat(<<LitA, ClassAB>>)}

Parts ==
    (Atoms \ {Empty})
    \cup {StarA, StarB, OptA, Repetition(LitA, 1, 2), Capture(LitA),
          Capture(Alternation(<<LitA, LitBB>>))}

Small == {LitA, ClassAB, Repetition(LitB, 0, 1)}

Concats ==
    {Concat(<<x, y>>) : x \in Parts, y \in Parts}
    \cup {Concat(<<x, y, z>>) : x \in Small, y \in Small, z \in Small}
    \cup {Concat(<<ClassAB, StarA, z>>) : z \in {LitB, ClassAB, ClassNone}}

Alternations ==
    {Alternation(<<x, y>>) : x \in Parts \cup {Empty}, y \in Parts \cup {Empty}}
    \cup {Alternation(<<x, y, z>>) : x \in Small, y \in Small, z \in Small}

AdjacentLiterals(h) ==
    \E j \in 1..(Len(h.subs) - 1) :
        h.subs[j].kind = "Literal" /\ h.subs[j + 1].kind = "Literal"

AllCharLike(h) == \A j \in 1..Len(h.subs) : h.subs[j] \in CharLike

Trees ==
    Atoms
    \cup {Repetition(s, b[1], b[2]) : s \in Subs, b \in RepBounds}
    \cup {Capture(s) : s \in Atoms \cup {StarA, Concat(<<LitA, StarB>>)}}
    \cup {h \in Concats : ~AdjacentLiterals(h)}
    \cup {h \in Alternations : ~AllCharLike(h)}

MaxLengths == {NoneVal} \cup (0..MaxLen)

\* the pattern and max_length of test_unbounded
TestUnboundedHir == Concat(<<StarA, StarB>>)
TestUnboundedMaxLength == 5

----------------------------------------------------------------------------
(* SpecCollect: a consumer that builds iterate_all(hir, max_length) and pulls
   it until it is exhausted, keeping the candidates (test_unbounded's collect) *)

InitCollect ==
    /\ \/ hir \in Trees /\ max_length \in MaxLengths
       \/ hir = TestUnboundedHir /\ max_length = TestUnboundedMaxLength
    /\ test_factories = <<>>
    /\ min_length = 0
    /\ num = NoneVal
    /\ it = NoIt
    /\ patterns = <<>>
    /\ i = 0
    /\ pc = "start"

Budget == IF max_length = TestUnboundedMaxLength THEN 25 ELSE MaxPulls

\* the consumer's position once the iterator e has been built
Built(e) == CASE e.k = "hang" -> "hang" [] e.k = "panic" -> "panic" [] OTHER -> "iter"

\* the consumer's step on the outcome s of a next() call
Received(s) ==
    /\ it' = s.it
    /\ patterns' = IF s.r = "some" THEN Append(patterns, s.v) ELSE patterns
    /\ pc' = CASE s.r = "some" -> "iter"
                [] s.r = "none" -> "done"
                [] s.r = "spin" -> "hang"
                [] OTHER -> "panic"

Compile ==
    /\ pc = "start"
    /\ it' = iterate_all(hir, max_length)
    /\ pc' = Built(it')
    /\ UNCHANGED <<test_factories, hir, max_length, min_length, num, patterns, i>>

Pull ==
    /\ pc = "iter"
    /\ Len(patterns) < Budget
    /\ Received(ItNext(it))
    /\ UNCHANGED <<test_factories, hir, max_length, min_length, num, i>>

NextCollect == Compile \/ Pull

SpecCollect == InitCollect /\ [][NextCollect]_vars

----------------------------------------------------------------------------
(* SpecProduct: MultiCartesianProduct::new over array iterators, pulled by a
   for loop (test_cartesian, test_cartesian_2) *)

DimItems(d, n) == [j \in 1..n |-> 10 * d + j]

InitProduct ==
    /\ \E n \in 0..MaxDims : \E sizes \in [1..n -> 0..MaxSize] :
          test_factories = [d \in 1..n |-> ListFactory(DimItems(d, sizes[d]))]
    /\ hir = Empty
    /\ max_length = NoneVal
    /\ min_length = 0
    /\ num = NoneVal
    /\ it = NoIt
    /\ patterns = <<>>
    /\ i = 0
    /\ pc = "start"

ProductNew ==
    /\ pc = "start"
    /\ it' = McpNew(test_factories)
    /\ pc' = "iter"
    /\ UNCHANGED <<test_factories, hir, max_length, min_length, num, patterns, i>>

ProductNext ==
    /\ pc = "iter"
    /\ Received(ItNext(it))
    /\ UNCHANGED <<test_factories, hir, max_length, min_length, num, i>>

NextProduct == ProductNew \/ ProductNext

SpecProduct == InitProduct /\ [][NextProduct]_vars

----------------------------------------------------------------------------
(* Spec: main *)

Init ==
    /\ hir \in Trees
    /\ max_length \in MaxLengths
    /\ min_length \in {0, 1}
    /\ num \in {NoneVal} \cup (0..MaxNum)
    /\ test_factories = <<>>
    /\ it = NoIt
    /\ patterns = <<>>
    /\ i = 0
    /\ pc = "guard"

(* main, lines 229-232: the adaptors put on iterate_all's result e *)
MainChain(e) ==
    IF IsBroken(e) THEN e ELSE FilterIt("ge", min_length, MapIt("lossy", e))

(* main, lines 235-240: s is the outcome of the for loop's next() *)
LoopOn(s) ==
    /\ it' = s.it
    /\ IF s.r = "some"
       THEN /\ patterns' = Append(patterns, s.v)
            /\ i' = i + 1
            /\ pc' = IF num # NoneVal /\ i >= num THEN "exit" ELSE "loop"
       ELSE /\ patterns' = patterns
            /\ i' = i
            /\ pc' = CASE s.r = "none" -> "exit"
                       [] s.r = "spin" -> "hang"
                       [] OTHER -> "panic"

(* Guard with the test of max_length left out of the condition *)
GuardIgnoresMaxLength ==
    /\ pc = "guard"
    /\ IF is_unbounded(hir) /\ num = NoneVal
       THEN /\ pc' = "error"
            /\ it' = it
       ELSE /\ it' = MainChain(iterate_all(hir, max_length))
            /\ pc' = IF Built(it') = "iter" THEN "loop" ELSE Built(it')
    /\ UNCHANGED <<test_factories, hir, max_length, min_length, num, patterns, i>>

(* main up to the for loop: the guard, then the iterator chain *)
Guard ==
    /\ pc = "guard"
    /\ IF is_unbounded(hir) /\ num = NoneVal /\ max_length = NoneVal
       THEN /\ pc' = "error"
            /\ it' = it
       ELSE /\ it' = MainChain(iterate_all(hir, max_length))
            /\ pc' = IF Built(it') = "iter" THEN "loop" ELSE Built(it')
    /\ UNCHANGED <<test_factories, hir, max_length, min_length, num, patterns, i>>

(* one iteration of the for loop of main: pull, println, the num check *)
Loop ==
    /\ pc = "loop"
    /\ Len(patterns) < MaxPulls
    /\ LoopOn(ItNext(it))
    /\ UNCHANGED <<test_factories, hir, max_length, min_length, num>>

Next == Guard \/ Loop

Spec == Init /\ [][Next]_vars

----------------------------------------------------------------------------
(* Reference definitions used by the properties *)

PrefixOf(p, q) == Len(p) <= Len(q) /\ \A k \in 1..Len(p) : p[k] = q[k]

RECURSIVE SizeProduct(_, _)
\* product of the lengths of the first d sequences of seqs
SizeProduct(seqs, d) == IF d = 0 THEN 1 ELSE Len(seqs[d]) * SizeProduct(seqs, d - 1)

\* the k-th tuple (k from 0) of the product of seqs in mixed-radix counting
\* order, the first sequence being the least significant digit
TupleAt(seqs, k) ==
    [d \in 1..Len(seqs) |->
        seqs[d][((k \div SizeProduct(seqs, d - 1)) % Len(seqs[d])) + 1]]

\* all tuples of the product of seqs, in that order
MixedRadix(seqs) ==
    [k \in 1..SizeProduct(seqs, Len(seqs)) |-> TupleAt(seqs, k - 1)]

\* each tuple of byte strings concatenated
Joined(tuples) == [k \in 1..Len(tuples) |-> ConcatAll(tuples[k])]

----------------------------------------------------------------------------
(* C1 *)

TestSeqs == [d \in 1..Len(test_factories) |-> test_factories[d].items]

NonEmptyDims ==
    /\ Len(test_factories) >= 1
    /\ \A d \in 1..Len(test_factories) : Len(test_factories[d].items) >= 1

\* C1: over N >= 1 finite non-empty dimensions MultiCartesianProduct emits every
\* N-tuple exactly once, in mixed-radix order with dimension 0 fastest; done is
\* set by the advance that follows the last tuple, and the next call is None.
C1_ProductMixedRadix ==
    NonEmptyDims =>
        /\ pc \in {"start", "iter", "done"}
        /\ PrefixOf(patterns, MixedRadix(TestSeqs))
        /\ pc = "iter" => (it.done <=> Len(patterns) = Len(MixedRadix(TestSeqs)))
        /\ pc = "done" => patterns = MixedRadix(TestSeqs)

C1_Witness ==
    /\ pc = "done"
    /\ Len(test_factories) = 3
    /\ \A d \in 1..3 : Len(test_factories[d].items) >= 2
    /\ Len(patterns) >= 8

----------------------------------------------------------------------------
(* C2 *)

Max2(a, b) == IF a > b THEN a ELSE b

\* the candidates of the sub-pattern of a Repetition, compiled on its own
SubCandidates(h) == Collected(h.subs[1], NoneVal, MaxCollect)

\* the candidates of h, a Repetition, compiled without max_length and cut at
\* the repeat count above which no tuple of non-empty candidates fits in m
UnprunedRepetition(h, m) ==
    Collected(Repetition(h.subs[1], h.min,
                         IF h.max = NoneVal THEN Max2(h.min, m) ELSE h.max),
              NoneVal, MaxCollect * MaxCollect)

C2_Applies ==
    /\ hir.kind = "Repetition"
    /\ max_length # NoneVal
    /\ SubCandidates(hir).r = "none"
    /\ hir.max = NoneVal =>
          \A k \in 1..Len(SubCandidates(hir).out) : Len(SubCandidates(hir).out[k]) >= 1

\* C2: for a Repetition, max_length only drops the candidates longer than m:
\* what is emitted is the sequence without max_length with exactly the
\* candidates longer than m removed, for every sub-pattern.
C2_MaxLengthOnlyDrops ==
    (C2_Applies /\ pc = "done") =>
        patterns = SelectSeq(UnprunedRepetition(hir, max_length).out,
                             LAMBDA c : Len(c) <= max_length)

----------------------------------------------------------------------------
(* C3 *)

RECURSIVE HasUnboundedRepetition(_)
\* a Repetition with max = none is reachable through Repetition, Capture,
\* Concat or Alternation nodes
HasUnboundedRepetition(h) ==
    \/ h.kind = "Repetition" /\ h.max = NoneVal
    \/ \E j \in 1..Len(h.subs) : HasUnboundedRepetition(h.subs[j])

\* C3: a tree holding an unbounded Repetition anywhere, run with no max_length
\* and no result-count cap, ends with the configuration error and prints nothing.
C3_GuardRejectsUnbounded ==
    (HasUnboundedRepetition(hir) /\ max_length = NoneVal /\ num = NoneVal) =>
        (pc \in {"guard", "error"} /\ patterns = <<>>)

----------------------------------------------------------------------------
(* C4 *)

\* C4: iterate_all on an Empty or a Look node yields exactly one candidate, the
\* empty byte string, for every max_length.
C4_EmptyYieldsEmptyCandidate ==
    (hir.kind \in {"Empty", "Look"} /\ pc = "done") => patterns = << <<>> >>

----------------------------------------------------------------------------
(* C5 *)

\* C5: with max_length set, no pull of the sequence built by iterate_all runs
\* forever, whatever the tree: the enumeration stays able to reach exhaustion.
C5_FiniteUnderMaxLength ==
    max_length # NoneVal => pc # "hang"

----------------------------------------------------------------------------
(* C6 *)

Repeat(b, n) == [k \in 1..n |-> b]

IsStarOfByte(h) ==
    /\ h.kind = "Repetition"
    /\ h.min = 0
    /\ h.max = NoneVal
    /\ h.subs[1].kind = "Literal"
    /\ Len(h.subs[1].bytes) = 1

C6_Applies ==
    /\ hir.kind = "Concat"
    /\ Len(hir.subs) = 2
    /\ IsStarOfByte(hir.subs[1])
    /\ IsStarOfByte(hir.subs[2])
    /\ max_length # NoneVal

RECURSIVE XYRows(_, _, _, _)
\* x^i y^j for j from the given j up to m and, within one j, i from 0 to m - j
XYRows(x, y, m, j) ==
    IF j > m THEN <<>>
    ELSE [n \in 1..(m - j + 1) |-> Repeat(x, n - 1) \o Repeat(y, j)]
         \o XYRows(x, y, m, j + 1)

C6_Reference ==
    XYRows(hir.subs[1].subs[1].bytes[1], hir.subs[2].subs[1].bytes[1], max_length, 0)

AB(n, m) == Repeat(ByteA, n) \o Repeat(ByteB, m)

\* the list asserted by test_unbounded
TestUnboundedExpected ==
    << AB(0, 0), AB(1, 0), AB(2, 0), AB(3, 0), AB(4, 0), AB(5, 0),
       AB(0, 1), AB(1, 1), AB(2, 1), AB(3, 1), AB(4, 1),
       AB(0, 2), AB(1, 2), AB(2, 2), AB(3, 2),
       AB(0, 3), AB(1, 3), AB(2, 3),
       AB(0, 4), AB(1, 4),
       AB(0, 5) >>

\* C6: Concat(x*, y*) under max_length = m emits exactly x^i y^j for i + j <= m,
\* once per (i, j), by j ascending then i ascending, and then is exhausted; for
\* a*b* and m = 5 this is the list of test_unbounded.
C6_XStarYStar ==
    C6_Applies =>
        /\ pc \in {"start", "iter", "done"}
        /\ PrefixOf(patterns, C6_Reference)
        /\ pc = "done" => patterns = C6_Reference
        /\ (pc = "done" /\ hir = TestUnboundedHir
               /\ max_length = TestUnboundedMaxLength)
             => patterns = TestUnboundedExpected

\* what the code does keep of it: the same statement for m >= 1
C6_FromOne == max_length >= 1 => C6_XStarYStar

----------------------------------------------------------------------------
(* C7 *)

RECURSIVE PowerBlocks(_, _, _)
\* for r = lo..hi in order, the r-fold product of S with itself in mixed-radix
\* order, each tuple concatenated
PowerBlocks(S, lo, hi) ==
    IF lo > hi THEN <<>>
    ELSE Joined(MixedRadix([d \in 1..lo |-> S])) \o PowerBlocks(S, lo + 1, hi)

\* the start of the r-fold product (r >= 1) of a sequence that does not end,
\* S being its first candidates: dimension 0 runs through S while the other
\* dimensions stay on their first element
EndlessBlock(S, r) ==
    [k \in 1..Len(S) |-> S[k] \o ConcatAll([d \in 1..(r - 1) |-> S[1]])]

C7_Applies ==
    /\ hir.kind = "Repetition"
    /\ hir.max # NoneVal
    /\ max_length = NoneVal

C7_Finite == SubCandidates(hir).r = "none"

C7_Endless == SubCandidates(hir).r = "cap"

\* C7: a Repetition with max present and no max_length emits, for r = min..max
\* in increasing order, the concatenation of every tuple of the r-fold product
\* of the sub-pattern's candidates, each block in mixed-radix order with
\* dimension 0 fastest. When the sub-pattern's own sequence does not end, what
\* is emitted is the start of the first block in that same order.
C7_BoundedRepetition ==
    C7_Applies =>
        /\ pc \in {"start", "iter", "done"}
        /\ C7_Finite =>
              /\ PrefixOf(patterns,
                          PowerBlocks(SubCandidates(hir).out, hir.min, hir.max))
              /\ pc = "done" =>
                    patterns = PowerBlocks(SubCandidates(hir).out, hir.min, hir.max)
        /\ C7_Endless =>
              /\ pc # "done"
              /\ PrefixOf(patterns,
                          IF hir.min = 0
                          THEN << <<>> >> \o EndlessBlock(SubCandidates(hir).out, 1)
                          ELSE EndlessBlock(SubCandidates(hir).out, hir.min))
        /\ C7_Finite \/ C7_Endless

C7_Witness ==
    /\ pc = "done"
    /\ C7_Applies
    /\ C7_Finite
    /\ hir.min < hir.max
    /\ Len(SubCandidates(hir).out) = 2
    /\ Len(patterns) >= 6

----------------------------------------------------------------------------
(* C8 *)

PartCandidates(h, d) == Collected(h.subs[d], NoneVal, MaxCollect)

C8_Applies ==
    /\ hir.kind = "Concat"
    /\ max_length = NoneVal
    /\ \A d \in 1..Len(hir.subs) : PartCandidates(hir, d).r = "none"

C8_Reference ==
    Joined(MixedRadix([d \in 1..Len(hir.subs) |-> PartCandidates(hir, d).out]))

\* C8: a Concat of parts with finite sequences and no max_length emits, once
\* per combination of one candidate per part, the candidates concatenated in
\* part order, the first part varying fastest.
C8_ConcatProduct ==
    C8_Applies =>
        /\ pc \in {"start", "iter", "done"}
        /\ PrefixOf(patterns, C8_Reference)
        /\ pc = "done" => patterns = C8_Reference

C8_Witness ==
    /\ pc = "done"
    /\ C8_Applies
    /\ Len(hir.subs) = 3
    /\ Len(patterns) = 8

----------------------------------------------------------------------------
(* C9 *)

RECURSIVE BranchesFrom(_, _, _, _)
\* the sequences of the branches d.. of h one after the other, up to and
\* including the first branch whose sequence is not exhausted by fuel pulls
BranchesAfter(h, ml, d, fuel, b) ==
    IF b.r # "none" THEN b
    ELSE [out |-> b.out \o BranchesFrom(h, ml, d + 1, fuel).out,
          r |-> BranchesFrom(h, ml, d + 1, fuel).r]

BranchesFrom(h, ml, d, fuel) ==
    IF d > Len(h.subs) THEN [out |-> <<>>, r |-> "none"]
    ELSE BranchesAfter(h, ml, d, fuel, Collected(h.subs[d], ml, fuel))

C9_Reference == BranchesFrom(hir, max_length, 1, Budget + 1)

\* C9: an Alternation emits its first branch's whole sequence, then the second
\* branch's, and so on: nothing is combined across branches and a candidate two
\* branches produce appears once per branch.
C9_AlternationSequential ==
    hir.kind = "Alternation" =>
        /\ PrefixOf(patterns, C9_Reference.out)
        /\ pc = "done" => (C9_Reference.r = "none" /\ patterns = C9_Reference.out)
        /\ C9_Reference.r = "none" => pc \in {"start", "iter", "done"}

C9_Witness ==
    /\ pc = "done"
    /\ hir.kind = "Alternation"
    /\ Len(hir.subs) = 3
    /\ \E j \in 1..Len(patterns) : \E k \in 1..Len(patterns) :
          j < k /\ patterns[j] = patterns[k]

----------------------------------------------------------------------------
(* C10 *)

\* C10: with max_length = m set, every candidate iterate_all emits, on every
\* node kind, has byte length <= m.
C10_LengthBound ==
    max_length # NoneVal =>
        \A k \in 1..Len(patterns) : Len(patterns[k]) <= max_length

C10_Witness ==
    /\ pc = "done"
    /\ max_length # NoneVal
    /\ hir.kind = "Concat"
    /\ Len(patterns) >= 1
    /\ Collected(hir, NoneVal, MaxCollect).r = "none"
    /\ Len(patterns) < Len(Collected(hir, NoneVal, MaxCollect).out)

----------------------------------------------------------------------------
(* C11 *)

\* C11: with the result-count option num = n given, main prints at most n
\* results, for every n >= 0 and every pattern.
C11_AtMostNum ==
    num # NoneVal => Len(patterns) <= num

----------------------------------------------------------------------------
(* C13 *)

\* the condition of the guard
C13_Fires == is_unbounded(hir) /\ max_length = NoneVal /\ num = NoneVal

C13_State ==
    /\ pc = "guard" => (it = NoIt /\ patterns = <<>> /\ i = 0)
    /\ pc = "error" => (it = NoIt /\ patterns = <<>> /\ i = 0)
    /\ pc # "guard" => (pc = "error" <=> C13_Fires)

\* C13: main evaluates the guard once, before iterate_all is built or pulled:
\* the run ends in the configuration error, nothing printed, exactly when
\* is_unbounded(tree) holds and both max_length and num are absent; in every
\* other configuration the enumeration starts and there is no such error. No
\* step returns to the guard and only the loop prints.
C13_GuardOnceBeforeEnumeration ==
    /\ []C13_State
    /\ [][/\ pc' # "guard"
          /\ pc = "error" => pc' = "error"
          /\ patterns' # patterns => pc = "loop"]_vars

C13_Witness ==
    /\ pc = "error"
    /\ hir.kind = "Concat"
    /\ C13_Fires

----------------------------------------------------------------------------
(* C14 *)

\* h, compiled on its own under max_length, yields no candidate and ends
C14_Zero(h) == Collected(h, max_length, MaxCollect) = [out |-> <<>>, r |-> "none"]

C14_Applies ==
    /\ hir.kind \in {"Concat", "Repetition"}
    /\ \E d \in 1..Len(hir.subs) : C14_Zero(hir.subs[d])

C14_EndsEmpty ==
    /\ patterns = <<>>
    /\ pc \in {"start", "iter", "done"}
    /\ pc = "iter" => ItNext(it).r = "none"

\* C14: when a part of a Concat, or the sub-pattern of a Repetition, yields zero
\* candidates, the enclosing Concat or Repetition yields zero candidates and
\* the enumeration ends normally, with no error.
C14_EmptyPropagates == C14_Applies => C14_EndsEmpty

\* what the code does keep of it: the same statement for a Concat and for a
\* Repetition with min >= 1 and max present
C14_ConcatOrCountedRepetition ==
    (hir.kind = "Concat" \/ (hir.min >= 1 /\ hir.max # NoneVal)) => C14_EmptyPropagates

----------------------------------------------------------------------------
(* C15 *)

\* the FlatMap of a Repetition inside the iterator iterate_all returned for it:
\* under the final filter and take_while when max_length is set
C15_FlatMap == IF max_length = NoneVal THEN it ELSE it.inner.inner

\* the first candidate of the sub-pattern, as a 1-tuple joined
C15_SubFirst == Collected(hir.subs[1], max_length, 1)

\* C15: a MultiCartesianProduct of no factories emits exactly one tuple, the
\* empty tuple, and is then exhausted; so the repeat count r = 0 of a Repetition
\* contributes exactly one candidate, the empty byte string, and the candidate
\* after it comes from r = 1.
C15_EmptyProductIdentity ==
    /\ CollectFrom(McpNew(<<>>), MaxCollect) = [out |-> << <<>> >>, r |-> "none"]
    /\ (hir.kind = "Repetition" /\ hir.min = 0) =>
          /\ Len(patterns) >= 1 => patterns[1] = <<>>
          /\ (pc = "iter" /\ Len(patterns) = 1) =>
                /\ C15_FlatMap.cur = 1
                /\ C15_FlatMap.front.inner.factories = <<>>
                /\ C15_FlatMap.front.inner.done
                /\ ItNext(C15_FlatMap.front).r = "none"
          /\ (Len(patterns) >= 2 /\ C15_SubFirst.out # <<>>) =>
                patterns[2] = C15_SubFirst.out[1]

C15_Witness ==
    /\ pc = "done"
    /\ hir.kind = "Repetition"
    /\ hir.min = 0
    /\ hir.max = 2
    /\ Len(patterns) = 7
    /\ patterns[2] # <<>>

----------------------------------------------------------------------------
(* C16 *)

C16_SomeDimensionEmpty ==
    \E d \in 1..Len(test_factories) : Len(test_factories[d].items) = 0

\* C16: when the sequence of any one dimension is empty at construction,
\* whatever its position, the product emits no tuple: it is done from
\* construction on, and the first next() call and every later call return None.
C16_EmptyDimensionEmptyProduct ==
    C16_SomeDimensionEmpty =>
        /\ patterns = <<>>
        /\ pc \in {"start", "iter", "done"}
        /\ pc \in {"iter", "done"} =>
              /\ it.done
              /\ ItNext(it).r = "none"
              /\ ItNext(ItNext(it).it).r = "none"

C16_Witness ==
    /\ pc = "done"
    /\ Len(test_factories) = 3
    /\ Len(test_factories[1].items) >= 2
    /\ Len(test_factories[2].items) >= 2
    /\ Len(test_factories[3].items) = 0

----------------------------------------------------------------------------
(* C17 *)

\* heads[k] is the element of dimension k that its live iterator gave last
C17_ValidHead(k) ==
    /\ it.iters[k].pos >= 2
    /\ it.iters[k].pos <= Len(test_factories[k].items) + 1
    /\ it.heads[k] = test_factories[k].items[it.iters[k].pos - 1]

C17_State ==
    (pc = "iter" /\ ~it.done) =>
        /\ Len(it.heads) = Len(test_factories)
        /\ Len(it.iters) = Len(test_factories)
        /\ it.factories = test_factories
        /\ \A k \in 1..Len(test_factories) : C17_ValidHead(k)

\* dimension k was exhausted before the step and is regenerated after it,
\* standing on its first element
C17_Wrapped(k) ==
    /\ it.iters[k].pos = Len(test_factories[k].items) + 1
    /\ it'.iters[k].pos = 2
    /\ it'.heads[k] = test_factories[k].items[1]

\* C17: in every reachable state of a product in which done is false, heads
\* holds one value per factory and heads[k] is the element of dimension k at
\* the position its live iterator has consumed up to; after construction done
\* becomes true only in an advance step in which every dimension wrapped.
C17_DimensionState ==
    /\ []C17_State
    /\ [][(pc = "iter" /\ ~it.done /\ it'.done) =>
              \A k \in 1..Len(test_factories) : C17_Wrapped(k)]_vars

C17_Witness ==
    /\ pc = "iter"
    /\ it.done
    /\ Len(test_factories) = 3
    /\ \A d \in 1..3 : Len(test_factories[d].items) >= 2
    /\ Len(patterns) >= 8

----------------------------------------------------------------------------
(* C18 *)

\* the sequence of part d of a Concat, compiled on its own
C18_Dimension(d) == Collected(hir.subs[d], max_length, MaxCollect)

\* part d does not exhaust
C18_Endless(d) == C18_Dimension(d).r = "cap"

C18_Applies ==
    /\ hir.kind = "Concat"
    /\ \E d \in 1..Len(hir.subs) : C18_Endless(d)
    /\ pc \in {"iter", "done"}

\* the first dimension that does not exhaust
C18_K == CHOOSE k \in 1..Len(hir.subs) :
            C18_Endless(k) /\ \A d \in 1..(k - 1) : ~C18_Endless(d)

\* the product inside the iterator iterate_all returned for a Concat
C18_Product == IF max_length = NoneVal THEN it.inner ELSE it.inner.inner

\* iter.next() of MultiCartesianProduct::new on a fresh dimension j
C18_AfterHead(j) == ItNext(iterate_all(hir.subs[j], max_length))

\* dimension j is as construction left it
C18_Untouched(j) ==
    /\ C18_Product.iters[j] = C18_AfterHead(j).it
    /\ C18_Product.heads[j] = C18_AfterHead(j).v

\* the dimensions up to k run in mixed-radix order while each dimension above
\* k stays on its first element
C18_Reference ==
    Joined(MixedRadix([d \in 1..Len(hir.subs) |->
                          IF d <= C18_K THEN C18_Dimension(d).out
                          ELSE <<C18_AfterHead(d).v>>]))

C18_Holds ==
    /\ pc = "iter"
    /\ ~C18_Product.done
    /\ \A j \in (C18_K + 1)..Len(hir.subs) : C18_Untouched(j)
    /\ PrefixOf(patterns, C18_Reference)

\* C18: if dimension k of a product never exhausts, no dimension
\* j > k is ever advanced or regenerated, every emitted tuple holds the first
\* element of each dimension above k, and the product never becomes exhausted.
C18_EndlessNeverCarries == C18_Applies => C18_Holds

\* no dimension of the product is empty at construction
C18_NoEmptyDimension ==
    \A d \in 1..Len(hir.subs) : C18_AfterHead(d).r = "some"

\* what the code does keep of it: the same statement for a product of which
\* no dimension is empty at construction
C18_EndlessNeverCarriesNonEmpty ==
    (C18_Applies /\ C18_NoEmptyDimension) => C18_Holds

----------------------------------------------------------------------------
(* C19 *)

\* C19: once iteration has begun it never fails: in every product iterate_all
\* builds, for a Concat or a Repetition, a dimension regenerated from its
\* factory during a carry has a first element, so the unwrap of the carry step
\* never meets None, neither in a pull made so far nor in the next one.
C19_NoPanic ==
    /\ pc # "panic"
    /\ pc = "iter" => ItNext(it).r # "panic"

\* a Repetition whose product of two dimensions has carried
C19_Witness ==
    /\ pc = "done"
    /\ hir.kind = "Repetition"
    /\ hir.min = 2
    /\ hir.max = 2
    /\ max_length = 2
    /\ Len(patterns) = 4
    /\ patterns[3][2] # patterns[1][2]

====
